---- MODULE Spec2Model ----
(***************************************************************************)
(* Model of src/src/01_fetch_opensky.py: the OpenSky ingestion pipeline.   *)
(*   init_db, fetch_opensky_snapshot, insert_states (tasks) and the flows  *)
(*   fetch_single_opensky_snapshot and fetch_many_opensky_snapshots.       *)
(*                                                                         *)
(* Python values are records [t, v]: t is the Python type name and v a     *)
(* sequence of integers (a string is its sequence of code points, an int   *)
(* the one-element sequence of its value, None the empty sequence).  A     *)
(* Python list is [t |-> "list", items |-> <<...>>]; Python index k is     *)
(* items[k + 1].                                                           *)
(***************************************************************************)
EXTENDS Integers, Sequences, FiniteSets, TLC

VARIABLES
    flow,            \* which flow runs: "many" or "single"
    num_snapshots,   \* argument of fetch_many_opensky_snapshots
    rejectsEmpty,    \* the installed duckdb refuses executemany(sql, [])
    pc,              \* position of the flow
    i,               \* loop variable of fetch_many_opensky_snapshots
    snapshot_time,   \* local of the flow, set by fetch_opensky_snapshot
    states,          \* local of the flow, set by fetch_opensky_snapshot
    total_rows,      \* local of the flow, set by insert_states
    tableExists,     \* states_raw exists in the database file
    table,           \* the rows of states_raw, in insertion order
    error,           \* the exception that left the flow ("none" if none)
    reported,        \* the total logged by the flow's last line ("none" before)
    trace,           \* history: the operations executed, in order
    times,           \* history: snapshot_time returned by each fetch
    owner,           \* history: for each row of table, the cycle that wrote it
    committed,       \* history: table as of the last completed insert_states
    wfTotal,         \* history: well-formed records fetched so far
    before,          \* history: table when insert_states was last entered
    priorCount,      \* history: rows of states_raw before the run
    initCount        \* history: rows of states_raw right after init_db

vars == << flow, num_snapshots, rejectsEmpty, pc, i, snapshot_time, states,
           total_rows, tableExists, table, error, reported, trace, times,
           owner, committed, wfTotal, before, priorCount, initCount >>

(* What a run never changes. *)
params == << flow, num_snapshots, rejectsEmpty, priorCount >>

----------------------------------------------------------------------------
(* Bounds *)

MaxCycles == 3
MaxBatch == 2
MaxUnitBatch == 2

(* Program constant: the minimum number of elements of a state vector. *)
MinFields == 17

----------------------------------------------------------------------------
(* Python values *)

PyNone == [t |-> "NoneType", v |-> << >>]
PyBool(b) == [t |-> "bool", v |-> << IF b THEN 1 ELSE 0 >>]
PyInt(n) == [t |-> "int", v |-> << n >>]
PyFloat(tenths) == [t |-> "float", v |-> << tenths >>]
PyStr(chars) == [t |-> "str", v |-> chars]
PyList(items) == [t |-> "list", items |-> items]
PyDict == [t |-> "dict", v |-> << >>]

(* Python truth value: None, False, 0, 0.0, "" and [] are falsy. *)
Truthy(x) ==
    CASE x.t = "NoneType" -> FALSE
      [] x.t \in {"bool", "int", "float"} -> x.v[1] # 0
      [] x.t = "str" -> Len(x.v) > 0
      [] x.t = "list" -> Len(x.items) > 0
      [] OTHER -> TRUE

(* isinstance(x, int): bool is a subclass of int. *)
IsInstanceInt(x) == x.t \in {"int", "bool"}

IsInstanceList(x) == x.t = "list"

(* bool(x) *)
Bool(x) == PyBool(Truthy(x))

Whitespace == {9, 10, 11, 12, 13, 32}

RECURSIVE LStrip(_)
LStrip(cs) ==
    IF cs # << >> /\ Head(cs) \in Whitespace THEN LStrip(Tail(cs)) ELSE cs

RECURSIVE RStrip(_)
RStrip(cs) ==
    IF cs # << >> /\ cs[Len(cs)] \in Whitespace
    THEN RStrip(SubSeq(cs, 1, Len(cs) - 1))
    ELSE cs

(* str.strip() *)
Strip(x) == PyStr(RStrip(LStrip(x.v)))

----------------------------------------------------------------------------
(* fetch_opensky_snapshot: the parsed response body (a JSON object, here a   *)
(* record holding the keys that are present).                                *)

(* dict.get(key): None when the key is absent. *)
DataGet(data, key) == IF key \in DOMAIN data THEN data[key] ELSE PyNone

(* snapshot_time = data.get("time") *)
FetchTime(data) == DataGet(data, "time")

(* states = data.get("states") or []  (as the sequence of its elements) *)
FetchStates(data) ==
    LET x == DataGet(data, "states") IN IF Truthy(x) THEN x.items ELSE << >>

----------------------------------------------------------------------------
(* insert_states *)

(* snapshot_time is None or not isinstance(snapshot_time, int), negated *)
ValidSnapshotTime_NoneOnly(st) == st # PyNone

ValidSnapshotTime(st) == ~(st = PyNone \/ ~IsInstanceInt(st))

(* not isinstance(s, list) or len(s) < 17 *)
Malformed(s) == ~IsInstanceList(s) \/ Len(s.items) < MinFields

(* bool(x) if x is not None else None *)
Coerce_DefaultFalse(x) == Bool(x)

Coerce(x) == IF x # PyNone THEN Bool(x) ELSE PyNone

(* s[1].strip() if s[1] else None *)
Callsign(x) == IF Truthy(x) THEN Strip(x) ELSE PyNone

(* The tuple appended to rows; s.items[k + 1] is Python's s[k]. *)
NormalizeRow_Straight(st, s) ==
    LET e == s.items IN
    << st, e[1], Callsign(e[2]), e[3], e[4], e[5], e[6], e[7], e[8],
       Coerce(e[9]), e[10], e[11], e[12], e[13], e[14], e[15],
       Coerce(e[16]) >>

NormalizeRow(st, s) ==
    LET e == s.items IN
    << st, e[1], Callsign(e[2]), e[3], e[4], e[5], e[6], e[7], e[8],
       Coerce(e[9]), e[10], e[11], e[12], e[14], e[15], Coerce(e[16]),
       e[17] >>

(* The loop building rows. *)
RECURSIVE BuildRows(_, _)
BuildRows(st, ss) ==
    IF ss = << >> THEN << >>
    ELSE IF Malformed(Head(ss)) THEN BuildRows(st, Tail(ss))
    ELSE << NormalizeRow(st, Head(ss)) >> \o BuildRows(st, Tail(ss))

(* The row count of states_raw queried after the insert, which is returned *)
CountRows_Batch(tbl, rows) == Len(rows)

CountRows(tbl, rows) == Len(tbl)

----------------------------------------------------------------------------
(* init_db: DROP TABLE IF EXISTS states_raw; CREATE TABLE IF NOT EXISTS ... *)

InitTable_NoDrop(exists, tbl) == IF exists THEN tbl ELSE << >>

InitTable(exists, tbl) == << >>

----------------------------------------------------------------------------
(* The flows *)

(* if i < num_snapshots - 1: time.sleep(sleep_seconds) *)
ShouldSleep_Always(k, n) == k < n

ShouldSleep(k, n) == k < n - 1

(* `raise` in the tasks' except clauses: the same exception leaves the task *)
Reraise(e) == e

(* The flows call the tasks outside any try: an exception leaves the flow.  *)
(* cont is where the flow would go on had the call returned.                *)
AfterRaise_Swallow(cont) == cont

AfterRaise(cont) == "failed"

----------------------------------------------------------------------------
(* Inputs: what the OpenSky API may answer.                                 *)

(* A state vector of n elements: s[1] (callsign), s[8] (on_ground) and      *)
(* s[15] (spi) as given, every other s[k] the sentinel 100 + k.             *)
MkRaw(n, cs, og, spi) ==
    PyList([k \in 1..n |->
              IF k = 2 THEN cs
              ELSE IF k = 9 THEN og
              ELSE IF k = 16 THEN spi
              ELSE PyInt(100 + (k - 1))])

(* Callsigns, as code points: " AB ", "AB" and "A". *)
CsPadded == << 32, 65, 66, 32 >>
CsPlain == << 65, 66 >>
CsShort == << 65 >>

FlagValues == {PyNone, PyBool(FALSE), PyInt(0), PyInt(1)}

CallsignValues == {PyNone, PyStr(<< >>), PyStr(CsPadded)}

(* State vectors for the runs of the flows. *)
FlowRecords ==
    { MkRaw(MinFields, PyStr(CsPadded), PyNone, PyBool(TRUE)),
      MkRaw(MinFields - 1, PyNone, PyNone, PyNone) }

(* State vectors for single calls of insert_states. *)
UnitRecords ==
    { MkRaw(MinFields, PyStr(CsPlain), og, spi) :
          og \in FlagValues, spi \in FlagValues }
    \cup { MkRaw(MinFields, cs, PyBool(TRUE), PyBool(TRUE)) :
          cs \in CallsignValues }
    \cup { MkRaw(MinFields + 1, PyNone, PyNone, PyNone),
           MkRaw(MinFields - 1, PyStr(CsPlain), PyBool(TRUE), PyNone),
           PyList(<< >>), PyDict, PyNone }

BatchesOf(S, n) == UNION { [1..k -> S] : k \in 0..n }

(* The "time" values of the response of cycle k (k = 0, 1, ...): null, the  *)
(* time of the first snapshot again (the API serves a cached snapshot), a   *)
(* later time, or a number that is no integer (1000.5, in tenths).          *)
TimeValues(k) == { PyNone, PyInt(1000), PyInt(1000 + k), PyFloat(10005) }

Responses(S, n, k) ==
    { [time |-> t, states |-> PyList(b)] :
          t \in TimeValues(k), b \in BatchesOf(S, n) }
    \cup { [states |-> PyList(b)] : b \in BatchesOf(S, n) }
    \cup { [time |-> t, states |-> PyNone] : t \in TimeValues(k) }
    \cup { [time |-> t] : t \in TimeValues(k) }

(* A row left in states_raw by an earlier run. *)
PriorRow ==
    NormalizeRow(PyInt(900),
                 MkRaw(MinFields, PyStr(CsShort), PyBool(TRUE), PyNone))

(* Number of well-formed records of a batch. *)
RECURSIVE WellFormedCount(_)
WellFormedCount(ss) ==
    IF ss = << >> THEN 0
    ELSE (IF Head(ss).t = "list" /\ Len(Head(ss).items) >= MinFields
          THEN 1 ELSE 0) + WellFormedCount(Tail(ss))

Repeat(x, n) == [k \in 1..n |-> x]

----------------------------------------------------------------------------
(* Initial state: the flow has been called; the database file may hold a    *)
(* states_raw table of an earlier run.                                      *)

Init ==
    /\ flow \in {"many", "single"}
    /\ num_snapshots \in (IF flow = "many" THEN 0..MaxCycles ELSE {1})
    /\ rejectsEmpty \in BOOLEAN
    /\ pc = "start"
    /\ i = 0
    /\ snapshot_time = PyNone
    /\ states = << >>
    /\ total_rows = -1
    /\ \E prior \in { << FALSE, << >> >>, << TRUE, << >> >>,
                      << TRUE, << PriorRow >> >> } :
          /\ tableExists = prior[1]
          /\ table = prior[2]
          /\ owner = Repeat(0, Len(prior[2]))
          /\ priorCount = Len(prior[2])
    /\ error = "none"
    /\ reported = -1
    /\ trace = << >>
    /\ times = << >>
    /\ committed = << >>
    /\ wfTotal = 0
    /\ before = << >>
    /\ initCount = -1

----------------------------------------------------------------------------
(* init_db *)

InitDbOk ==
    /\ pc = "start"
    /\ tableExists' = TRUE
    /\ table' = InitTable(tableExists, table)
    /\ owner' = Repeat(0, Len(table'))
    /\ committed' = table'
    /\ before' = table'
    /\ initCount' = Len(table')
    /\ trace' = Append(trace, "init_db")
    /\ total_rows' = IF flow = "many" THEN 0 ELSE total_rows
    /\ pc' = IF flow = "many" THEN "loop" ELSE "fetch"
    /\ UNCHANGED << params, i, snapshot_time,
                    states, error, reported, times, wfTotal >>

(* mkdir or connect fails (nothing changed), or a statement after the DROP  *)
(* fails (the table is gone).                                               *)
InitDbFail ==
    /\ pc = "start"
    /\ \E stage \in {"connect", "create"} :
          /\ tableExists' = IF stage = "connect" THEN tableExists ELSE FALSE
          /\ table' = IF stage = "connect" THEN table ELSE << >>
          /\ owner' = Repeat(0, Len(table'))
          /\ error' = Reraise(IF stage = "connect" THEN "OSError"
                              ELSE "duckdb.Error")
    /\ trace' = Append(trace, "init_db")
    /\ pc' = AfterRaise(IF flow = "many" THEN "loop" ELSE "fetch")
    /\ UNCHANGED << params, initCount, i, snapshot_time,
                    states, total_rows, reported, times, committed, wfTotal,
                    before >>

----------------------------------------------------------------------------
(* fetch_many_opensky_snapshots: for i in range(num_snapshots) *)

LoopEnter ==
    /\ pc = "loop"
    /\ flow = "many"
    /\ i < num_snapshots
    /\ pc' = "fetch"
    /\ UNCHANGED << params, initCount, i, snapshot_time,
                    states, total_rows, tableExists, table, error, reported,
                    trace, times, owner, committed, wfTotal, before >>

(* The loop is over: the final log line reports total_rows. *)
Finish ==
    /\ pc = "loop"
    /\ flow = "many"
    /\ ~(i < num_snapshots)
    /\ pc' = "done"
    /\ reported' = total_rows
    /\ UNCHANGED << params, initCount, i, snapshot_time,
                    states, total_rows, tableExists, table, error, trace,
                    times, owner, committed, wfTotal, before >>

----------------------------------------------------------------------------
(* fetch_opensky_snapshot *)

FetchOk ==
    /\ pc = "fetch"
    /\ \E data \in Responses(FlowRecords, MaxBatch, i) :
          /\ snapshot_time' = FetchTime(data)
          /\ states' = FetchStates(data)
    /\ times' = Append(times, snapshot_time')
    /\ wfTotal' = wfTotal + WellFormedCount(states')
    /\ trace' = Append(trace, "fetch")
    /\ pc' = "insert"
    /\ UNCHANGED << params, initCount, i, total_rows,
                    tableExists, table, error, reported, owner, committed,
                    before >>

(* requests raises (connection, timeout, HTTP status) or the body is no JSON *)
FetchFail ==
    /\ pc = "fetch"
    /\ \E e \in {"RequestException", "ValueError: JSON"} :
          error' = Reraise(e)
    /\ trace' = Append(trace, "fetch")
    /\ pc' = AfterRaise("insert")
    /\ UNCHANGED << params, initCount, i, snapshot_time,
                    states, total_rows, tableExists, table, reported, times,
                    owner, committed, wfTotal, before >>

----------------------------------------------------------------------------
(* insert_states(db_path, snapshot_time, states) *)

(* snapshot_time is None or no int: ValueError, before any connection. *)
InsertInvalid ==
    /\ pc = "insert"
    /\ ~ValidSnapshotTime(snapshot_time)
    /\ before' = table
    /\ error' = "ValueError: snapshot_time"
    /\ trace' = Append(trace, "insert_states")
    /\ pc' = AfterRaise("logged")
    /\ UNCHANGED << params, initCount, i, snapshot_time,
                    states, total_rows, tableExists, table, reported, times,
                    owner, committed, wfTotal >>

(* not states: connect, count, close, return the count. *)
InsertEmpty ==
    /\ pc = "insert"
    /\ ValidSnapshotTime(snapshot_time)
    /\ ~Truthy(PyList(states))
    /\ before' = table
    /\ total_rows' = Len(table)
    /\ committed' = table
    /\ trace' = trace \o << "insert_states", "connect", "count" >>
    /\ pc' = "logged"
    /\ UNCHANGED << params, initCount, i, snapshot_time,
                    states, tableExists, table, error, reported, times,
                    owner, wfTotal >>

(* not states, and the connection or the count query fails. *)
InsertEmptyFault ==
    /\ pc = "insert"
    /\ ValidSnapshotTime(snapshot_time)
    /\ ~Truthy(PyList(states))
    /\ before' = table
    /\ error' = "duckdb.Error"
    /\ trace' = trace \o << "insert_states", "connect" >>
    /\ pc' = AfterRaise("logged")
    /\ UNCHANGED << params, initCount, i, snapshot_time,
                    states, total_rows, tableExists, table, reported, times,
                    owner, committed, wfTotal >>

(* states is not empty: build rows, connect, executemany, count, close.     *)
(* Skipped when rows is empty and this duckdb refuses an empty parameter    *)
(* list (InsertRejected).                                                   *)
InsertRows ==
    /\ pc = "insert"
    /\ ValidSnapshotTime(snapshot_time)
    /\ Truthy(PyList(states))
    /\ LET rows == BuildRows(snapshot_time, states) IN
          /\ ~(rows = << >> /\ rejectsEmpty)
          /\ table' = table \o rows
          /\ owner' = owner \o Repeat(i + 1, Len(rows))
          /\ total_rows' = CountRows(table', rows)
    /\ before' = table
    /\ committed' = table'
    /\ trace' = trace \o << "insert_states", "connect", "executemany",
                            "count" >>
    /\ pc' = "logged"
    /\ UNCHANGED << params, initCount, i, snapshot_time,
                    states, tableExists, error, reported, times, wfTotal >>

(* states is not empty but every record was skipped: executemany is called  *)
(* with an empty parameter list, which this duckdb refuses                  *)
(* (InvalidInputException); the except clause logs and re-raises.           *)
InsertRejected ==
    /\ pc = "insert"
    /\ ValidSnapshotTime(snapshot_time)
    /\ Truthy(PyList(states))
    /\ BuildRows(snapshot_time, states) = << >>
    /\ rejectsEmpty
    /\ before' = table
    /\ error' = Reraise("duckdb.InvalidInputException")
    /\ trace' = trace \o << "insert_states", "connect", "executemany" >>
    /\ pc' = AfterRaise("logged")
    /\ UNCHANGED << params, initCount, i, snapshot_time,
                    states, total_rows, tableExists, table, reported, times,
                    owner, committed, wfTotal >>

(* The storage layer fails in connect, executemany or the count: no          *)
(* transaction is open, so the parameter sets already executed stay.         *)
InsertFault ==
    /\ pc = "insert"
    /\ ValidSnapshotTime(snapshot_time)
    /\ Truthy(PyList(states))
    /\ LET rows == BuildRows(snapshot_time, states) IN
          \E k \in 0..Len(rows) :
              /\ table' = table \o SubSeq(rows, 1, k)
              /\ owner' = owner \o Repeat(i + 1, k)
    /\ before' = table
    /\ error' = Reraise("duckdb.Error")
    /\ trace' = trace \o << "insert_states", "connect", "executemany" >>
    /\ pc' = AfterRaise("logged")
    /\ UNCHANGED << params, initCount, i, snapshot_time,
                    states, total_rows, tableExists, reported, times,
                    committed, wfTotal >>

----------------------------------------------------------------------------
(* End of the loop body: sleep between snapshots, except after the last.    *)

Sleep ==
    /\ pc = "logged"
    /\ flow = "many"
    /\ ShouldSleep(i, num_snapshots)
    /\ trace' = Append(trace, "sleep")
    /\ i' = i + 1
    /\ pc' = "loop"
    /\ UNCHANGED << params, initCount, snapshot_time, states,
                    total_rows, tableExists, table, error, reported, times,
                    owner, committed, wfTotal, before >>

NoSleep ==
    /\ pc = "logged"
    /\ flow = "many"
    /\ ~ShouldSleep(i, num_snapshots)
    /\ i' = i + 1
    /\ pc' = "loop"
    /\ UNCHANGED << params, initCount, snapshot_time, states,
                    total_rows, tableExists, table, error, reported, trace,
                    times, owner, committed, wfTotal, before >>

(* fetch_single_opensky_snapshot: the final log line. *)
FinishSingle ==
    /\ pc = "logged"
    /\ flow = "single"
    /\ pc' = "done"
    /\ reported' = total_rows
    /\ UNCHANGED << params, initCount, i, snapshot_time,
                    states, total_rows, tableExists, table, error, trace,
                    times, owner, committed, wfTotal, before >>

Next ==
    \/ InitDbOk
    \/ InitDbFail
    \/ LoopEnter
    \/ Finish
    \/ FetchOk
    \/ FetchFail
    \/ InsertInvalid
    \/ InsertEmpty
    \/ InsertEmptyFault
    \/ InsertRows
    \/ InsertRejected
    \/ InsertFault
    \/ Sleep
    \/ NoSleep
    \/ FinishSingle

Spec == Init /\ [][Next]_vars

----------------------------------------------------------------------------
(* Single calls of insert_states: the flow stands right before its call of  *)
(* insert_states, either in fetch_single_opensky_snapshot or in the second  *)
(* and last cycle of fetch_many_opensky_snapshots(2, ...), with a fetched   *)
(* batch drawn from UnitRecords.                                            *)

FirstCycleRow ==
    NormalizeRow(PyInt(1000),
                 MkRaw(MinFields, PyStr(CsPlain), PyBool(TRUE), PyNone))

InitInsert ==
    /\ flow \in {"many", "single"}
    /\ num_snapshots = (IF flow = "many" THEN 2 ELSE 1)
    /\ rejectsEmpty \in BOOLEAN
    /\ pc = "insert"
    /\ i = (IF flow = "many" THEN 1 ELSE 0)
    /\ snapshot_time \in TimeValues(i)
    /\ states \in BatchesOf(UnitRecords, MaxUnitBatch)
    /\ total_rows = (IF flow = "many" THEN 1 ELSE -1)
    /\ tableExists = TRUE
    /\ table = (IF flow = "many" THEN << FirstCycleRow >> ELSE << >>)
    /\ owner = Repeat(1, Len(table))
    /\ error = "none"
    /\ reported = -1
    /\ trace = (IF flow = "many"
                THEN << "init_db", "fetch", "insert_states", "connect",
                        "executemany", "count", "sleep", "fetch" >>
                ELSE << "init_db", "fetch" >>)
    /\ times = (IF flow = "many" THEN << PyInt(1000), snapshot_time >>
                ELSE << snapshot_time >>)
    /\ committed = table
    /\ wfTotal = Len(table) + WellFormedCount(states)
    /\ before = << >>
    /\ priorCount = 0
    /\ initCount = 0

NextInsert ==
    \/ InsertInvalid
    \/ InsertEmpty
    \/ InsertEmptyFault
    \/ InsertRows
    \/ InsertRejected
    \/ InsertFault
    \/ NoSleep
    \/ Finish
    \/ FinishSingle

SpecInsert == InitInsert /\ [][NextInsert]_vars

----------------------------------------------------------------------------
(* Vocabulary of the properties *)

Count(seq, x) == Cardinality({ p \in DOMAIN seq : seq[p] = x })

Last(seq) == seq[Len(seq)]

IsPrefix(a, b) == Len(a) <= Len(b) /\ SubSeq(b, 1, Len(a)) = a

(* insert_states has been called with the current snapshot_time and states *)
InsertCalled ==
    \E p \in DOMAIN trace :
        /\ trace[p] = "insert_states"
        /\ \A q \in (p + 1)..Len(trace) : trace[q] # "fetch"

(* ... and has returned *)
InsertReturned == InsertCalled /\ Last(trace) \in {"count", "sleep"}

(* The rows the last call of insert_states added *)
NewRows == SubSeq(table, Len(before) + 1, Len(table))

WellFormed(s) == s.t = "list" /\ Len(s.items) >= 17

WellFormedOf(ss) == SelectSeq(ss, WellFormed)

IntegerTime(x) == x.t = "int"

StorageFault == error \in {"duckdb.Error", "OSError"}

----------------------------------------------------------------------------
(* C1: when fetch_many_opensky_snapshots reaches its end (every cycle       *)
(* having succeeded), the total it reports is the row count of states_raw,  *)
(* and that count is the count right after init_db plus the number of       *)
(* well-formed records (lists of at least 17 elements) fetched over all     *)
(* cycles.                                                                  *)
C1_FinalTotal ==
    (pc = "done" /\ flow = "many") =>
        /\ reported = Len(table)
        /\ Len(table) = initCount + wfTotal

(* Three cycles, one of them writing nothing, four rows in all. *)
C1_Witness ==
    /\ pc = "done"
    /\ flow = "many"
    /\ num_snapshots = 3
    /\ Count(owner, 2) = 0
    /\ reported = 4

(* C2: in fetch_many_opensky_snapshots the delay runs only right after a    *)
(* completed write and right before the next fetch, every fetch but the     *)
(* first follows a delay, a finished run of N >= 1 cycles has slept exactly *)
(* N-1 times and not after the last cycle, and a run of 0 cycles executes   *)
(* init_db only.                                                            *)
C2_DelayBetweenCycles ==
    flow = "many" =>
        /\ \A p \in DOMAIN trace :
              trace[p] = "sleep" =>
                  /\ p > 1 /\ trace[p - 1] = "count"
                  /\ p < Len(trace) => trace[p + 1] = "fetch"
                  /\ Count(SubSeq(trace, 1, p), "sleep")
                        = Count(SubSeq(trace, 1, p), "count")
        /\ \A p \in DOMAIN trace :
              trace[p] = "fetch" =>
                  /\ p > 1
                  /\ trace[p - 1] \in {"init_db", "sleep"}
                  /\ trace[p - 1] = "init_db" => p = 2
        /\ Count(trace, "sleep") <= Count(trace, "fetch")
        /\ pc = "done" =>
              /\ Count(trace, "fetch") = num_snapshots
              /\ Count(trace, "count") = num_snapshots
              /\ num_snapshots >= 1 =>
                    /\ Count(trace, "sleep") = num_snapshots - 1
                    /\ Last(trace) # "sleep"
              /\ num_snapshots = 0 => trace = << "init_db" >>

C2_Witness ==
    /\ pc = "done"
    /\ flow = "many"
    /\ num_snapshots = 3
    /\ Count(trace, "sleep") = 2

(* C3: once a step of a cycle has failed the run is over: the failing       *)
(* operation is the last one executed, the cycle was fetched once, the      *)
(* exception the flow ends with is the one the step raised, and the rows of *)
(* the completed cycles are still the head of the table.                    *)
C3_FailFast ==
    (error # "none" /\ Count(trace, "fetch") > 0) =>
        /\ pc = "failed"
        /\ reported = -1
        /\ Count(trace, "fetch") = i + 1
        /\ Count(trace, "insert_states") <= i + 1
        /\ Count(trace, "sleep") = i
        /\ Count(trace, "count") = i
        /\ Last(trace) = "fetch" =>
              error \in {"RequestException", "ValueError: JSON"}
        /\ Last(trace) = "insert_states" =>
              error = "ValueError: snapshot_time"
        /\ Last(trace) \in {"connect", "executemany"} =>
              error \in {"duckdb.Error", "duckdb.InvalidInputException"}
        /\ Last(trace) \in {"fetch", "insert_states", "connect",
                            "executemany"}
        /\ IsPrefix(committed, table)
        /\ Len(committed) = Cardinality({ r \in DOMAIN owner : owner[r] <= i })
        /\ \A r \in DOMAIN table : owner[r] <= i + 1

(* The fetch of cycle 2 of 3 fails; the rows of cycle 1 remain. *)
C3_Witness ==
    /\ pc = "failed"
    /\ flow = "many"
    /\ num_snapshots = 3
    /\ i = 1
    /\ error = "RequestException"
    /\ Len(table) = 2
    /\ table = committed

C5_EmptyRowsNoOp ==
    (/\ InsertCalled
     /\ IntegerTime(snapshot_time)
     /\ WellFormedOf(states) = << >>
     /\ ~StorageFault) =>
        /\ error = "none"
        /\ table = before
        /\ total_rows = Len(table)

(* The part of C5 the code provides: the no-op for an empty states list. *)
EmptyStatesNoOp ==
    (/\ InsertCalled
     /\ IntegerTime(snapshot_time)
     /\ states = << >>
     /\ ~StorageFault) =>
        /\ error = "none"
        /\ table = before
        /\ total_rows = Len(table)
        /\ \A p \in DOMAIN trace :
              trace[p] = "executemany" =>
                  \E q \in (p + 1)..Len(trace) : trace[q] = "fetch"

(* C6: with an integer snapshot_time, insert_states does not raise on a     *)
(* batch of n records of which k are malformed, and appends exactly n-k     *)
(* rows, one per well-formed record in the order fetched.  Storage faults   *)
(* aside.                                                                   *)
C6_SkipsMalformedOnly ==
    (/\ InsertCalled
     /\ IntegerTime(snapshot_time)
     /\ ~StorageFault) =>
        /\ error = "none"
        /\ IsPrefix(before, table)
        /\ Len(NewRows) = Len(WellFormedOf(states))
        /\ \A j \in DOMAIN NewRows :
              LET e == WellFormedOf(states)[j].items IN
                  /\ NewRows[j][2] = e[1]
                  /\ NewRows[j][3] \in {PyNone, PyStr(CsPlain)}
                  /\ NewRows[j][3] = PyNone <=> e[2] \in {PyNone, PyStr(<< >>)}
                  /\ NewRows[j][10] = PyNone <=> e[9] = PyNone
                  /\ NewRows[j][16] = PyNone <=> e[16] = PyNone

(* The part of C6 the code provides: a batch with a well-formed record. *)
SkipsMalformedWhenSomeWellFormed ==
    (WellFormedOf(states) # << >>) => C6_SkipsMalformedOnly

(* C7: the row of a well-formed record s has 17 fields: snapshot_time, then *)
(* the fields taken from s[0]..s[11] and s[13]..s[16] in that order; s[12]  *)
(* and whatever follows s[16] are in no field.                              *)
C7_PositionalMapping ==
    (InsertReturned /\ error = "none") =>
        /\ Len(NewRows) = Len(WellFormedOf(states))
        /\ \A j \in DOMAIN NewRows :
              LET row == NewRows[j]
                  e == WellFormedOf(states)[j].items
              IN  /\ Len(row) = 17
                  /\ row[1] = snapshot_time
                  /\ \A k \in (0..11) \ {1, 8} : row[k + 2] = e[k + 1]
                  /\ \A k \in {13, 14, 16} : row[k + 1] = e[k + 1]
                  /\ row[3] = (IF e[2] \in {PyNone, PyStr(<< >>)}
                               THEN PyNone ELSE PyStr(CsPlain))
                  /\ row[10] = PyNone <=> e[9] = PyNone
                  /\ row[16] = PyNone <=> e[16] = PyNone
                  /\ \A q \in DOMAIN row :
                        /\ row[q] # e[13]
                        /\ \A k \in 18..Len(e) : row[q] # e[k]

(* Two rows written, the second from a record of 18 elements. *)
C7_Witness ==
    /\ InsertReturned
    /\ error = "none"
    /\ Len(NewRows) = 2
    /\ Len(states) = 2
    /\ Len(states[2].items) = 18
    /\ NewRows[1][3] = PyStr(CsPlain)

(* C8: on_ground (s[8]) and spi (s[15]) are tri-state: null stays null, a   *)
(* non-null falsy value (0, False) becomes false, a truthy value true.      *)
C8_TriState ==
    (InsertReturned /\ error = "none") =>
        /\ Len(NewRows) = Len(WellFormedOf(states))
        /\ \A j \in DOMAIN NewRows :
              LET row == NewRows[j]
                  e == WellFormedOf(states)[j].items
              IN  \A c \in { << 10, 9 >>, << 16, 16 >> } :
                      LET out == row[c[1]]
                          raw == e[c[2]]
                      IN  /\ raw.t = "NoneType" => out = PyNone
                          /\ (raw.t \in {"bool", "int"} /\ raw.v = << 0 >>)
                                => out = [t |-> "bool", v |-> << 0 >>]
                          /\ (raw.t \in {"bool", "int"} /\ raw.v # << 0 >>)
                                => out = [t |-> "bool", v |-> << 1 >>]

(* One row with on_ground unknown and spi false, one with on_ground true. *)
C8_Witness ==
    /\ InsertReturned
    /\ error = "none"
    /\ Len(NewRows) = 2
    /\ NewRows[1][10] = PyNone
    /\ NewRows[1][16] = PyBool(FALSE)
    /\ NewRows[2][10] = PyBool(TRUE)

(* C9: in both flows init_db runs once, before any fetch or write; right    *)
(* after it states_raw exists and is empty whatever it held before; no      *)
(* later step drops it or removes rows; if init_db fails nothing else runs. *)
C9_InitOnceFirst ==
    /\ Count(trace, "init_db") <= 1
    /\ trace # << >> => trace[1] = "init_db"
    /\ pc # "start" => trace # << >>
    /\ (trace = << "init_db" >> /\ error = "none") =>
          /\ tableExists
          /\ table = << >>
          /\ initCount = 0
    /\ (trace # << >> /\ ~(Len(trace) = 1 /\ error # "none")) =>
          /\ tableExists
          /\ IsPrefix(committed, table)
          /\ \A r \in DOMAIN owner : owner[r] > 0
    /\ (error # "none" /\ Count(trace, "fetch") = 0) =>
          /\ trace = << "init_db" >>
          /\ pc = "failed"

(* A table of an earlier run held a row; init_db has just emptied it. *)
C9_Witness ==
    /\ trace = << "init_db" >>
    /\ error = "none"
    /\ flow = "single"
    /\ priorCount > 0
    /\ table = << >>
    /\ tableExists

(* C10: every row of states_raw has a non-null integer snapshot_time, and   *)
(* the rows a cycle appended carry the snapshot_time that cycle's fetch     *)
(* returned, and that of no other cycle.                                    *)
C10_OneTimePerBatch ==
    /\ Len(owner) = Len(table)
    /\ \A r \in DOMAIN table :
          /\ table[r][1].t = "int"
          /\ owner[r] > 0 =>
                /\ owner[r] \in DOMAIN times
                /\ table[r][1] = times[owner[r]]
                /\ \A k \in DOMAIN times :
                      times[k] # times[owner[r]] => times[k] # table[r][1]
    /\ \A r1, r2 \in DOMAIN table :
          (owner[r1] = owner[r2] /\ owner[r1] > 0)
              => table[r1][1] = table[r2][1]

(* Rows of three cycles stand in the table. *)
C10_Witness ==
    /\ Count(owner, 1) = 2
    /\ Count(owner, 2) = 1
    /\ Count(owner, 3) = 2

====
